---- MODULE Spec2Model ----
(***************************************************************************)
(* A model of sqlalchemy-service: the BaseService session orchestration    *)
(* (scoped unit of work, commit / rollback / refresh / release), the CRUD  *)
(* operations on top of it, and the bounded connection pool of             *)
(* ServiceEngine.                                                          *)
(*                                                                         *)
(* The ORM session and the database are the library's collaborators.  They *)
(* are modelled by what the service calls on them: add / delete / flush /  *)
(* commit / rollback / refresh / close on a session holding a table of     *)
(* rows (id, name), the table of tests/service.py.  A session holds one    *)
(* pooled connection from the moment it is opened until it is closed.      *)
(* Constraint violations are reported by the database when the session     *)
(* commits.                                                                *)
(***************************************************************************)
EXTENDS Integers, Sequences, FiniteSets, TLC

VARIABLES
    session,               \* self.session: "Depends" | "open" | "closed"
    session_creator,       \* self._session_creator: "None" | "started" | "exhausted"
    need_commit_and_close, \* self._need_commit_and_close
    objects_to_refresh,    \* self.objects_to_refresh: sequence of object refs
    response_status,       \* self.response.status_code
    external,              \* the constructor was given a live session
    pc,                    \* the caller: "out" of a scope or in its "body"
    ret,                   \* outcome of the caller's last step
    made,                  \* the entity the caller's last operation created
    nops,                  \* operations issued so far
    scopes,                \* scopes entered so far
    objs,                  \* the Python entity objects, by ref
    txn,                   \* the table as the session's transaction sees it
    db,                    \* the committed table
    seq,                   \* last value of the id sequence
    log,                   \* calls made on the session since the last scope entry
    scope,                 \* observations about the current / last scope
    checkedout,            \* connections of the pool that are checked out
    unit,                  \* pool model: state of each concurrent unit of work
    boot,                  \* start-up: configuration, driver, database initialisation
    task                   \* the tasks of a TaskGroup calling the Service in one scope

vars == <<session, session_creator, need_commit_and_close, objects_to_refresh,
          response_status, external, pc, ret, made, nops, scopes, objs, txn,
          db, seq, log, scope, checkedout, unit, boot, task>>

service_vars == <<session, session_creator, need_commit_and_close,
                  objects_to_refresh, response_status, external, pc, ret, made,
                  nops, scopes, objs, txn, db, seq, log, scope, task>>

-----------------------------------------------------------------------------
(* Bounds of the model *)

MaxId == 2        \* ids the sequence can hand out
MaxObjs == 2      \* entity objects alive at a time
MaxOps == 2       \* service operations in a behaviour
MaxScopes == 2    \* scope entries in a behaviour
NumTasks == 2     \* concurrent tasks of a TaskGroup on one Service
NumUnits == 6     \* concurrent units of work competing for the pool

(* Program constants *)

pool_size == 5
max_overflow == 0
NoStatus == 0     \* Response.status_code before anything set it
attempts == 20    \* range(20) of connect_create_if_not_exists
NoId == 0         \* the id of an entity that was never flushed (None)

NoneVal == "None"
NoRow == "NoRow"
Names == {"a", "b"}
Ids == 1..MaxId
Refs == 1..MaxObjs

-----------------------------------------------------------------------------
(* Strings as sequences of characters, and the str methods _commit uses *)

Lowers == <<"a","b","c","d","e","f","g","h","i","j","k","l","m","n","o","p","q","r","s","t","u","v","w","x","y","z">>
Uppers == <<"A","B","C","D","E","F","G","H","I","J","K","L","M","N","O","P","Q","R","S","T","U","V","W","X","Y","Z">>

IndexIn(c, alphabet) ==
    IF \E i \in 1..Len(alphabet) : alphabet[i] = c
    THEN CHOOSE i \in 1..Len(alphabet) : alphabet[i] = c
    ELSE 0

upper(c) == IF IndexIn(c, Lowers) > 0 THEN Uppers[IndexIn(c, Lowers)] ELSE c
lower(c) == IF IndexIn(c, Uppers) > 0 THEN Lowers[IndexIn(c, Uppers)] ELSE c

\* str.capitalize(): first character upper-cased, the rest lower-cased
capitalize(s) ==
    [i \in 1..Len(s) |-> IF i = 1 THEN upper(s[i]) ELSE lower(s[i])]

\* position of the first occurrence of sub in s at or after from, 0 if none
find(s, sub, from) ==
    LET hits == {i \in from..(Len(s) - Len(sub) + 1) :
                    SubSeq(s, i, i + Len(sub) - 1) = sub}
    IN IF hits = {} THEN 0 ELSE CHOOSE i \in hits : \A j \in hits : i <= j

contains(s, sub) == find(s, sub, 1) > 0

\* s.split(sep)[1]: the text between the first and the second occurrence of sep
split_second(s, sep) ==
    LET p == find(s, sep, 1)
        start == p + Len(sep)
        q == find(s, sep, start)
    IN IF q = 0 THEN SubSeq(s, start, Len(s)) ELSE SubSeq(s, start, q - 1)

\* s.strip(chars)
strip(s, chars) ==
    LET keep == {i \in 1..Len(s) : s[i] \notin chars}
    IN IF keep = {} THEN <<>>
       ELSE LET lo == CHOOSE i \in keep : \A j \in keep : i <= j
                hi == CHOOSE i \in keep : \A j \in keep : j <= i
            IN SubSeq(s, lo, hi)

Whitespace == {" ", "\n", "\t"}

NotPresentPhrase ==
    <<"i","s"," ","n","o","t"," ","p","r","e","s","e","n","t"," ",
      "i","n"," ","t","a","b","l","e">>

NotFoundSuffix == <<" ","n","o","t"," ","f","o","u","n","d">>

\* a variant of commit_error that answers every IntegrityError with a conflict
commit_error_conflict(orig) == [status_code |-> 409, detail |-> <<>>]

\* the HTTPException _commit raises for an IntegrityError whose str(e.orig) is orig
commit_error(orig) ==
    IF ~contains(orig, NotPresentPhrase)
    THEN [status_code |-> 409, detail |-> <<>>]
    ELSE LET t1 == split_second(orig, NotPresentPhrase)
             t2 == capitalize(strip(t1, Whitespace))
             t3 == strip(strip(t2, {"\""}), {"'"})
         IN [status_code |-> 404, detail |-> t3 \o NotFoundSuffix]

-----------------------------------------------------------------------------
(* Keyword dictionaries: functions from keys to values *)

EmptyDict == [k \in {} |-> NoneVal]
NoSchema == [is_none |-> TRUE]          \* object_schema=None

\* Python's a | b: the keys of both, b's value where both have the key
dict_merge(a, b) ==
    [k \in (DOMAIN a) \cup (DOMAIN b) |-> IF k \in DOMAIN b THEN b[k] ELSE a[k]]

model_dump(object_schema) == object_schema

Columns == {"id", "name"}                \* tests/service.py: class User
NoneOf(k) == IF k = "id" THEN NoId ELSE NoneVal
column(i, name, k) == IF k = "id" THEN i ELSE name

-----------------------------------------------------------------------------
(* The ORM session: entity objects, the transaction's view, flush, commit  *)

FreeObj == [st |-> "free", id |-> NoId, name |-> NoneVal, fresh |-> FALSE]
EmptyTable == [i \in Ids |-> NoRow]

Store == [objs |-> objs, txn |-> txn, db |-> db, seq |-> seq]

RECURSIVE flush_from(_, _, _)
flush_from(r, S, only) ==
    IF r > MaxObjs THEN S
    ELSE LET o == S.objs[r] IN
         CASE r \notin only -> flush_from(r + 1, S, only)
           [] o.st = "pending" ->
                flush_from(r + 1,
                    [S EXCEPT !.objs[r] = [o EXCEPT !.st = "persistent",
                                                    !.id = S.seq + 1,
                                                    !.fresh = TRUE],
                              !.txn[S.seq + 1] = o.name,
                              !.seq = S.seq + 1], only)
           [] o.st = "persistent" ->
                flush_from(r + 1, [S EXCEPT !.txn[o.id] = o.name], only)
           [] o.st = "deleted" ->
                flush_from(r + 1, [S EXCEPT !.txn[o.id] = NoRow], only)
           [] OTHER -> flush_from(r + 1, S, only)

\* session.flush(): INSERT the pending objects (the sequence hands out their
\* ids), UPDATE the changed ones, DELETE the ones marked deleted
flush(S) == flush_from(1, S, Refs)

\* session.flush(objects): the same for the given objects only
flush_objects(S, refs) == flush_from(1, S, refs)

has_changes(S) == flush(S).txn # S.db

\* a variant of session_commit that flushes and never makes it durable
session_commit_lost(S) == flush(S)

\* session.commit() that succeeds
session_commit(S) ==
    LET F == flush(S) IN
    [F EXCEPT !.objs = [r \in Refs |->
                          CASE F.objs[r].st = "deleted" ->
                                 [F.objs[r] EXCEPT !.st = "detached"]
                            [] F.objs[r].st = "persistent" ->
                                 [F.objs[r] EXCEPT !.fresh = FALSE]
                            [] OTHER -> F.objs[r]],
              !.db = F.txn]

\* a variant of session_rollback that leaves the transaction's writes stored
session_rollback_stored(S) == [flush(S) EXCEPT !.db = flush(S).txn]

\* session.rollback(): the transaction's writes are undone, objects added in
\* it are expelled, the others are expired and read the committed row again
session_rollback(S) ==
    [S EXCEPT !.objs = [r \in Refs |->
                          LET o == S.objs[r] IN
                          CASE o.st = "pending" -> [o EXCEPT !.st = "detached"]
                            [] o.st \in {"persistent", "deleted"} /\ o.fresh ->
                                 [o EXCEPT !.st = "detached", !.fresh = FALSE]
                            [] o.st \in {"persistent", "deleted"} /\ ~o.fresh ->
                                 [o EXCEPT !.st = "persistent", !.name = S.db[o.id]]
                            [] OTHER -> o],
              !.txn = S.db]

\* session.close(): every object of the session is detached, what was not
\* committed is gone
session_close(S) ==
    [S EXCEPT !.objs = [r \in Refs |->
                          IF S.objs[r].st \in {"pending", "persistent", "deleted"}
                          THEN [S.objs[r] EXCEPT !.st = "detached", !.fresh = FALSE]
                          ELSE S.objs[r]],
              !.txn = S.db]

free_refs(S) == {r \in Refs : S.objs[r].st = "free"}
new_ref(S) == CHOOSE r \in free_refs(S) : \A q \in free_refs(S) : r <= q

\* a variant of session_add that adds an object without its field values
session_add_unnamed(S, name) ==
    [S EXCEPT !.objs[new_ref(S)] =
        [st |-> "pending", id |-> NoId, name |-> NoneVal, fresh |-> FALSE]]

\* session.add(obj) of a new object
session_add(S, name) ==
    [S EXCEPT !.objs[new_ref(S)] =
        [st |-> "pending", id |-> NoId, name |-> name, fresh |-> FALSE]]

\* the identity map: the object of row i in this session, 0 if not loaded
loaded(S, i) ==
    IF \E r \in Refs : S.objs[r].st = "persistent" /\ S.objs[r].id = i
    THEN CHOOSE r \in Refs : S.objs[r].st = "persistent" /\ S.objs[r].id = i
    ELSE 0

can_load(S, i) == loaded(S, i) # 0 \/ free_refs(S) # {}
ref_of(S, i) == IF loaded(S, i) # 0 THEN loaded(S, i) ELSE new_ref(S)

\* the object a query hands out for row i: the one of the identity map, or
\* a new one built from the row
load(S, i) ==
    IF loaded(S, i) # 0 THEN S
    ELSE [S EXCEPT !.objs[new_ref(S)] =
            [st |-> "persistent", id |-> i, name |-> S.txn[i], fresh |-> FALSE]]

-----------------------------------------------------------------------------
(* QueryService *)

\* a variant of query_filter that keeps the keys whose value is None
query_filter_all(filters, none_as_value) == DOMAIN filters

\* _query_filter: the keys that become equality predicates
query_filter(filters, none_as_value) ==
    IF none_as_value THEN DOMAIN filters
    ELSE {k \in DOMAIN filters : filters[k] # NoneOf(k)}

\* the rows of table t a filtered query selects
selected(t, filters, none_as_value) ==
    {i \in Ids : /\ t[i] # NoRow
                 /\ \A k \in query_filter(filters, none_as_value) :
                        column(i, t[i], k) = filters[k]}

\* a variant of filters_of that looks every entity up without a filter
filters_of_nothing(object_filter) == EmptyDict

\* _update / _delete: object_filter is a dict of filters or an id
filters_of(object_filter) ==
    IF object_filter.is_dict THEN object_filter.filters
    ELSE [id |-> object_filter.id]

-----------------------------------------------------------------------------
(* The database's verdict on a commit: none, or an IntegrityError.  orig   *)
(* is str(e.orig); missing_row and table say what the database reported.   *)

NoViolation == [orig |-> <<>>, missing_row |-> FALSE, table |-> <<>>]

\* a foreign key violation: the referenced row is missing from the table
missing_row_error(head, table, quote, tail) ==
    [orig |-> head \o NotPresentPhrase \o <<" ">> \o quote \o table \o quote \o tail,
     missing_row |-> TRUE, table |-> table]

\* any other integrity violation
other_error(text) == [orig |-> text, missing_row |-> FALSE, table |-> <<>>]

Heads == {<<"K","e","y"," ","(","u",")","=","(","7",")"," ">>, <<"r","o","w"," ">>}
Tables == {<<"u","s","e","r","s">>, <<"P","o","s","t","s">>,
           <<"u","s","e","r","_","t","a","g","s">>}
Quotes == {<<"\"">>, <<"'">>, <<>>}
Tails == {<<".">>, <<"\n">>, <<>>}
OtherTexts ==
    {<<"d","u","p","l","i","c","a","t","e"," ","k","e","y"," ",
       "\"","u","s","e","r","s","_","p","k","e","y","\"">>,
     <<"n","u","l","l"," ","i","n"," ","t","a","b","l","e"," ",
       "\"","u","s","e","r","s","\"">>,
     <<"k","e","y"," ","i","s"," ","n","o","t"," ","p","r","e","s","e","n","t">>}

IntegrityErrors ==
    {missing_row_error(h, t, q, l) : h \in Heads, t \in Tables, q \in Quotes, l \in Tails}
    \cup {other_error(x) : x \in OtherTexts}

\* the two kinds, as PostgreSQL words them
FewErrors ==
    {missing_row_error(<<"K","e","y"," ","(","u",")","=","(","7",")"," ">>,
                       <<"u","s","e","r","s">>, <<"\"">>, <<".">>),
     other_error(<<"d","u","p","l","i","c","a","t","e"," ","k","e","y"," ",
                   "\"","u","s","e","r","s","_","p","k","e","y","\"">>)}

\* the database can only object to a commit that writes something
verdicts(S, need, errors) ==
    IF need /\ has_changes(S) THEN {NoViolation} \cup errors
    ELSE {NoViolation}

-----------------------------------------------------------------------------
(* BaseService *)

\* an exception: its class, the HTTPException's fields, and the verdict of
\* the database it was raised for (its __context__)
NoExc == [raised |-> "none", status_code |-> NoStatus, detail |-> <<>>,
          cause |-> NoViolation]
Exc(name) == [raised |-> name, status_code |-> NoStatus, detail |-> <<>>,
              cause |-> NoViolation]
HTTPException(status_code, detail, cause) ==
    [raised |-> "HTTPException", status_code |-> status_code, detail |-> detail,
     cause |-> cause]

\* a variant of _commit that commits whoever owns the commit
_commit_always(S, need, v) ==
    IF v = NoViolation
    THEN [S |-> session_commit(S), exc |-> NoExc, events |-> <<"commit">>]
    ELSE [S |-> session_rollback(S), exc |-> HTTPException(409, <<>>, v),
          events |-> <<"commit", "rollback">>]

\* _commit: nothing unless the service owns the commit; else session.commit(),
\* and on IntegrityError session.rollback() and the HTTPException
_commit(S, need, v) ==
    IF ~need
    THEN [S |-> S, exc |-> NoExc, events |-> <<>>]
    ELSE IF v = NoViolation
    THEN [S |-> session_commit(S), exc |-> NoExc, events |-> <<"commit">>]
    ELSE LET e == commit_error(v.orig) IN
         [S |-> session_rollback(S),
          exc |-> HTTPException(e.status_code, e.detail, v),
          events |-> <<"commit", "rollback">>]

\* a variant of refresh_loop that empties the list and re-reads nothing
refresh_loop_skip(S, otr, events) ==
    [S |-> S, otr |-> <<>>, exc |-> NoExc, events |-> events]

\* the loop of refresh(): pop the last object and session.refresh() it.
\* session.refresh() raises for an object that is not persistent in the
\* session or whose row is gone
RECURSIVE refresh_loop(_, _, _)
refresh_loop(S, otr, events) ==
    IF otr = <<>>
    THEN [S |-> S, otr |-> otr, exc |-> NoExc, events |-> events]
    ELSE LET r == otr[Len(otr)]
             rest == SubSeq(otr, 1, Len(otr) - 1)
             o == S.objs[r]
             F == flush(S)
         IN IF o.st \notin {"persistent", "deleted"}
            THEN [S |-> S, otr |-> rest, exc |-> Exc("InvalidRequestError"),
                  events |-> Append(events, "refresh")]
            ELSE IF o.st = "deleted"
            THEN [S |-> F, otr |-> rest, exc |-> Exc("InvalidRequestError"),
                  events |-> Append(events, "refresh")]
            ELSE refresh_loop([F EXCEPT !.objs[r].name = F.txn[o.id]], rest,
                              Append(events, "refresh"))

\* refresh()
refresh_steps(S, otr, need) ==
    IF otr # <<>> /\ need
    THEN refresh_loop(flush_objects(S, {otr[k] : k \in 1..Len(otr)}), otr, <<"flush">>)
    ELSE refresh_loop(S, otr, <<>>)

\* a variant of update_obj that applies None values whatever none_as_value is
update_obj_with_none(o, merged, none_as_value) ==
    [obj |-> [o EXCEPT !.name = IF "name" \in DOMAIN merged THEN merged["name"]
                                ELSE @],
     modified |-> \E k \in DOMAIN merged : column(o.id, o.name, k) # merged[k]]

\* the loop of _update_obj over (object_schema | kwargs)
update_obj(o, merged, none_as_value) ==
    LET applied == {k \in DOMAIN merged : none_as_value \/ merged[k] # NoneOf(k)}
    IN [obj |-> [o EXCEPT !.name = IF "name" \in applied THEN merged["name"] ELSE @],
        modified |-> \E k \in applied : column(o.id, o.name, k) # merged[k]]

\* what _create hands to base_table(**obj_dict, **kwargs)
create_kwargs(creator_id, kwargs) ==
    IF creator_id # NoneVal
    THEN dict_merge(kwargs, [creator_id |-> creator_id, editor_id |-> creator_id])
    ELSE kwargs

\* base_table(**obj_dict, **kwargs) raises TypeError for a keyword given
\* twice and for a keyword that is no column
create_type_error(obj_dict, kw) ==
    \/ (DOMAIN obj_dict) \cap (DOMAIN kw) # {}
    \/ ~((DOMAIN obj_dict) \cup (DOMAIN kw) \subseteq Columns)

-----------------------------------------------------------------------------
(* ServiceEngine: the pool behind get_session() *)

\* a variant of pool_has_free with one overflow connection
pool_has_overflow == checkedout < pool_size + max_overflow + 1

pool_has_free == checkedout < pool_size + max_overflow

-----------------------------------------------------------------------------
(* Start-up: DBConfigurator, the driver import of base_db/create.py and    *)
(* run_init_db.  The environment says, for each configuration class,      *)
(* whether its host and its database name are set (their fields are plain *)
(* strings, empty when unset).                                             *)

\* a variant of configuration_classes with the canonical names first
configuration_classes_canonical_first ==
    <<"PostgresSQLDBConfiguration", "OldPostgresSQLDBConfiguration",
      "MySQLDBConfiguration">>

\* DBConfigurator.configuration_classes
configuration_classes ==
    <<"OldPostgresSQLDBConfiguration", "PostgresSQLDBConfiguration",
      "MySQLDBConfiguration">>

Envs ==
    [{"OldPostgresSQLDBConfiguration", "PostgresSQLDBConfiguration",
      "MySQLDBConfiguration"} -> [host : BOOLEAN, database : BOOLEAN]]

\* get_url() of a configuration class: the error it raises, or "none"
get_url(class, env) ==
    IF ~env[class].host THEN "DBHostNotSetError"
    ELSE IF ~env[class].database THEN "DBNameNotSetError"
    ELSE "none"

\* get_db_type() of a configuration class
get_db_type(class) ==
    IF class = "MySQLDBConfiguration" THEN "mysql" ELSE "postgres"

\* DBConfigurator._try_configures: the first class whose get_url() raises
\* nothing becomes the configuration
RECURSIVE _try_configures(_, _, _)
_try_configures(classes, env, tried) ==
    IF classes = <<>>
    THEN [configuration |-> "None", exc |-> "DBConfigurationNotFoundError",
          tried |-> tried]
    ELSE LET error == get_url(Head(classes), env)
             now == Append(tried, [class |-> Head(classes), error |-> error])
         IN IF error = "none"
            THEN [configuration |-> Head(classes), exc |-> "none", tried |-> now]
            ELSE _try_configures(Tail(classes), env, now)

NoBoot ==
    [env |-> [c \in {"OldPostgresSQLDBConfiguration", "PostgresSQLDBConfiguration",
                     "MySQLDBConfiguration"} |-> [host |-> TRUE, database |-> TRUE]],
     at |-> "off", configuration |-> "None", tried |-> <<>>, driver |-> "none",
     attempt |-> 0, connects |-> 0, creates |-> 0, connected |-> FALSE,
     created |-> FALSE, exc |-> "none"]

\* the process starts: nothing configured yet
init_boot(envs) == boot \in {[NoBoot EXCEPT !.env = e, !.at = "start"] : e \in envs}

\* db_configurator = DBConfigurator()
DBConfigurator ==
    /\ boot.at = "start"
    /\ LET T == _try_configures(configuration_classes, boot.env, <<>>)
       IN boot' = [boot EXCEPT !.configuration = T.configuration,
                               !.tried = T.tried,
                               !.exc = T.exc,
                               !.at = IF T.exc = "none" THEN "configured"
                                      ELSE "failed"]
    /\ UNCHANGED <<service_vars, checkedout, unit>>

\* the module-level driver selection of create.py: an import that fails is
\* logged and leaves the name driver unbound
select_driver ==
    /\ boot.at = "configured"
    /\ \E installed \in BOOLEAN :
        boot' =
          IF get_db_type(boot.configuration) = "postgres"
          THEN [boot EXCEPT !.driver = IF installed THEN "asyncpg" ELSE "unbound",
                            !.at = "imported"]
          ELSE IF get_db_type(boot.configuration) = "mariadb"
          THEN [boot EXCEPT !.driver = IF installed THEN "aiomysql" ELSE "unbound",
                            !.at = "imported"]
          ELSE [boot EXCEPT !.exc = "DriverNotFoundError", !.at = "failed"]
    /\ UNCHANGED <<service_vars, checkedout, unit>>

ConnectOutcomes == {"connected", "InvalidCatalogNameError", "Exception"}

\* a variant of connect_attempt whose loop goes on after a connection
connect_attempt_no_break(outcome, create_ok) ==
    /\ boot.at \in {"imported", "connecting"}
    /\ boot.attempt < attempts
    /\ boot' =
         IF boot.driver = "unbound"
         THEN [boot EXCEPT !.exc = "NameError", !.at = "failed"]
         ELSE IF outcome = "connected"
         THEN [boot EXCEPT !.connects = @ + 1, !.connected = TRUE,
                           !.attempt = @ + 1, !.at = "connecting"]
         ELSE IF outcome = "InvalidCatalogNameError"
         THEN IF create_ok
              THEN [boot EXCEPT !.connects = @ + 1, !.creates = @ + 1,
                                !.created = TRUE, !.at = "done"]
              ELSE [boot EXCEPT !.connects = @ + 1, !.creates = @ + 1,
                                !.exc = "Exception", !.at = "failed"]
         ELSE [boot EXCEPT !.connects = @ + 1, !.attempt = @ + 1,
                           !.at = "connecting"]
    /\ UNCHANGED <<service_vars, checkedout, unit>>

\* one turn of the loop of connect_create_if_not_exists, run by run_init_db;
\* a break ends the loop, the function and run_init_db, which logs that the
\* initialisation is done.  connects counts the calls of driver.connect(url),
\* creates the CREATE DATABASE statements
connect_attempt(outcome, create_ok) ==
    /\ boot.at \in {"imported", "connecting"}
    /\ boot.attempt < attempts
    /\ boot' =
         IF boot.driver = "unbound"
         THEN [boot EXCEPT !.exc = "NameError", !.at = "failed"]
         ELSE IF outcome = "connected"
         THEN [boot EXCEPT !.connects = @ + 1, !.connected = TRUE, !.at = "done"]
         ELSE IF outcome = "InvalidCatalogNameError"
         THEN IF create_ok
              THEN [boot EXCEPT !.connects = @ + 1, !.creates = @ + 1,
                                !.created = TRUE, !.at = "done"]
              ELSE [boot EXCEPT !.connects = @ + 1, !.creates = @ + 1,
                                !.exc = "Exception", !.at = "failed"]
         ELSE [boot EXCEPT !.connects = @ + 1, !.attempt = @ + 1,
                           !.at = "connecting"]
    /\ UNCHANGED <<service_vars, checkedout, unit>>

\* the loop ran out of turns: connect_create_if_not_exists returns and
\* run_init_db logs that the initialisation is done
init_db_exhausted ==
    /\ boot.at = "connecting"
    /\ boot.attempt = attempts
    /\ boot' = [boot EXCEPT !.at = "done"]
    /\ UNCHANGED <<service_vars, checkedout, unit>>

-----------------------------------------------------------------------------
(* Initial states: a Service was constructed, with the live session of an  *)
(* external caller or with the unresolved Depends placeholder              *)

InitTables ==
    {[db |-> EmptyTable, seq |-> 0],
     [db |-> [EmptyTable EXCEPT ![1] = "a"], seq |-> 1],
     [db |-> [EmptyTable EXCEPT ![1] = "a", ![2] = "b"], seq |-> 2]}

NotMade == [ref |-> 0, name |-> NoneVal]
NoScope == [rows_before |-> 0, created |-> <<>>, mutated |-> FALSE,
            body_raised |-> FALSE, exit |-> "none"]

init_service(externals, tables) ==
    /\ external \in externals
    /\ session = IF external THEN "open" ELSE "Depends"
    /\ session_creator = "None"
    /\ need_commit_and_close = ~external
    /\ objects_to_refresh = <<>>
    /\ response_status = NoStatus
    /\ pc = "out"
    /\ ret = [op |-> "init", exc |-> NoExc, obj |-> 0, info |-> <<>>]
    /\ made = NotMade
    /\ nops = 0
    /\ scopes = 0
    /\ objs = [r \in Refs |-> FreeObj]
    /\ \E t \in tables : db = t.db /\ txn = t.db /\ seq = t.seq
    /\ log = <<>>
    /\ scope = NoScope
    /\ checkedout = IF external THEN 1 ELSE 0
    /\ unit = [u \in 1..NumUnits |-> "idle"]

NoTasks == [t \in 1..NumTasks |-> [at |-> "none", op |-> "none", id |-> NoId,
                                   name |-> NoneVal]]

Init == init_service(BOOLEAN, InitTables) /\ boot = NoBoot /\ task = NoTasks

-----------------------------------------------------------------------------------------------------------------------------------------------------
(* The caller's operations on the Service *)

\* Service(): the caller goes on with a new instance once the session of the
\* old one is closed.  The default response is the Response class itself, so
\* the status set through the old instance is still there.
__init__ ==
    /\ pc = "out"
    /\ ~external
    /\ session = "closed"
    /\ session' = "Depends"
    /\ session_creator' = "None"
    /\ need_commit_and_close' = TRUE
    /\ objects_to_refresh' = <<>>
    /\ ret' = [op |-> "init", exc |-> NoExc, obj |-> 0, info |-> <<>>]
    /\ UNCHANGED <<response_status, external, pc, made, nops, scopes, objs, txn,
                   db, seq, log, scope, checkedout, unit, boot, task>>

can_call == nops < MaxOps

visible(S) == selected(flush(S).txn, EmptyDict, FALSE)

\* the operation of the task whose query was in flight has returned
returned(tasks) ==
    [t \in DOMAIN tasks |->
        IF tasks[t].at = "querying" THEN [tasks[t] EXCEPT !.at = "done"]
        ELSE tasks[t]]

\* a variant of Finish that leaves the response's status as it was
Finish_status_kept(S, otr, status, r, events, io, sc) ==
    /\ (io /\ session = "closed") => pool_has_free
    /\ session' = IF io /\ session = "closed" THEN "open" ELSE session
    /\ checkedout' = IF io /\ session = "closed" THEN checkedout + 1 ELSE checkedout
    /\ objs' = S.objs /\ txn' = S.txn /\ db' = S.db /\ seq' = S.seq
    /\ objects_to_refresh' = otr
    /\ response_status' = response_status
    /\ ret' = r
    /\ log' = log \o events
    /\ scope' = sc
    /\ nops' = nops + 1
    /\ made' = IF r.op = "create" /\ r.obj # 0
               THEN [ref |-> r.obj, name |-> r.info.name] ELSE NotMade
    /\ task' = returned(task)
    /\ UNCHANGED <<session_creator, need_commit_and_close, external, pc, scopes,
                   unit, boot>>

\* the common tail of an operation: the session's new state, the outcome
Finish(S, otr, status, r, events, io, sc) ==
    /\ (io /\ session = "closed") => pool_has_free
    /\ session' = IF io /\ session = "closed" THEN "open" ELSE session
    /\ checkedout' = IF io /\ session = "closed" THEN checkedout + 1 ELSE checkedout
    /\ objs' = S.objs /\ txn' = S.txn /\ db' = S.db /\ seq' = S.seq
    /\ objects_to_refresh' = otr
    /\ response_status' = status
    /\ ret' = r
    /\ log' = log \o events
    /\ scope' = sc
    /\ nops' = nops + 1
    /\ made' = IF r.op = "create" /\ r.obj # 0
               THEN [ref |-> r.obj, name |-> r.info.name] ELSE NotMade
    /\ task' = returned(task)
    /\ UNCHANGED <<session_creator, need_commit_and_close, external, pc, scopes,
                   unit, boot>>

\* an operation that raised before it changed anything
Raise(op, name, info) ==
    Finish(Store, objects_to_refresh, response_status,
           [op |-> op, exc |-> Exc(name), obj |-> 0, info |-> info],
           <<>>, FALSE, scope)

\* a variant of scalar_rows that forgets the filters
scalar_rows_any(F, filters) ==
    LET rows == selected(F.txn, EmptyDict, FALSE)
    IN IF rows = {} THEN {0} ELSE rows

\* the scalar() of _get_one: None (0) without a matching row, else the first
\* row of a result that has no ORDER BY
scalar_rows(F, filters) ==
    LET rows == selected(F.txn, filters, FALSE)
    IN IF rows = {} THEN {0} ELSE rows

_get_one(filters, mute_not_found_exception) ==
    /\ can_call
    /\ IF session = "Depends"
       THEN Raise("get_one", "AttributeError", [filters |-> filters])
       ELSE LET F == flush(Store)
                info == [filters |-> filters, mute |-> mute_not_found_exception,
                         made |-> made,
                         made_id |-> IF made.ref # 0 THEN objs[made.ref].id
                                     ELSE NoId]
            IN \E i \in scalar_rows(F, filters) :
               IF i = 0
               THEN Finish(F, objects_to_refresh, response_status,
                           [op |-> "get_one",
                            exc |-> IF mute_not_found_exception THEN NoExc
                                    ELSE HTTPException(404, <<>>, NoViolation),
                            obj |-> 0, info |-> info],
                           <<>>, TRUE, scope)
               ELSE /\ can_load(F, i)
                    /\ Finish(load(F, i), objects_to_refresh, response_status,
                              [op |-> "get_one", exc |-> NoExc,
                               obj |-> ref_of(F, i), info |-> info],
                              <<>>, TRUE, scope)

_count(filters, none_as_value) ==
    /\ can_call
    /\ IF session = "Depends"
       THEN Raise("count", "AttributeError", [filters |-> filters])
       ELSE LET F == flush(Store) IN
            Finish(F, objects_to_refresh, response_status,
                   [op |-> "count", exc |-> NoExc, obj |-> 0,
                    info |-> [filters |-> filters,
                              none_as_value |-> none_as_value,
                              value |-> Cardinality(selected(F.txn, filters,
                                                             none_as_value))]],
                   <<>>, TRUE, scope)

-----------------------------------------------------------------------------
(* List queries and the like filter *)

NoPage == -1      \* page=None, count=None

\* select(cls.base_table)
select_query ==
    [filters |-> EmptyDict, none_as_value |-> FALSE, offset |-> NoPage,
     limit |-> NoPage]

\* __query_pagination: returns the query with offset and limit
query_pagination(query, page, count) ==
    LET p == IF page = NoPage /\ count # NoPage THEN 0 ELSE page
        c == IF p # NoPage /\ count = NoPage THEN 20 ELSE count
    IN IF p # NoPage /\ c # NoPage
       THEN [query EXCEPT !.offset = p * c, !.limit = c]
       ELSE query

\* a variant of get_list_query that goes on with the paginated query
get_list_query_paginated(page, count, none_as_value, filters) ==
    [query_pagination(select_query, page, count)
        EXCEPT !.filters = filters, !.none_as_value = none_as_value]

\* _get_list_query: the query __query_pagination returns is dropped, the
\* filters are put on the query it was given
get_list_query(page, count, none_as_value, filters) ==
    LET query == select_query
        dropped == query_pagination(query, page, count)
    IN [query EXCEPT !.filters = filters, !.none_as_value = none_as_value]

\* the orders in which the database may hand out rows: no ORDER BY
orderings(rows) ==
    {o \in [1..Cardinality(rows) -> rows] :
        \A i, j \in 1..Cardinality(rows) : i # j => o[i] # o[j]}

\* OFFSET / LIMIT of the query on the rows in the database's order
run_query(query, all) ==
    IF query.limit = NoPage THEN all
    ELSE LET last == IF query.offset + query.limit < Len(all)
                     THEN query.offset + query.limit ELSE Len(all)
         IN [k \in 1..(IF last > query.offset THEN last - query.offset ELSE 0) |->
                all[query.offset + k]]

can_load_all(S, rows) ==
    Cardinality({i \in {rows[k] : k \in DOMAIN rows} : loaded(S, i) = 0})
        <= Cardinality(free_refs(S))

RECURSIVE load_all(_, _)
load_all(S, rows) ==
    IF rows = <<>> THEN S ELSE load_all(load(S, Head(rows)), Tail(rows))

_get_list(page, count, none_as_value, filters) ==
    /\ can_call
    /\ IF session = "Depends"
       THEN Raise("get_list", "AttributeError", [filters |-> filters])
       ELSE LET F == flush(Store)
                query == get_list_query(page, count, none_as_value, filters)
            IN \E all \in orderings(selected(F.txn, query.filters,
                                              query.none_as_value)) :
               \E rows \in {run_query(query, all)} :
               /\ can_load_all(F, rows)
               /\ Finish(load_all(F, rows), objects_to_refresh, response_status,
                         [op |-> "get_list", exc |-> NoExc, obj |-> 0,
                          info |-> [page |-> page, count |-> count,
                                    filters |-> filters,
                                    none_as_value |-> none_as_value,
                                    all |-> all, rows |-> rows]],
                         <<>>, TRUE, scope)

\* the characters of the names and values the like filter is tried on
text(v) ==
    CASE v = "a" -> <<"a">>
      [] v = "b" -> <<"b">>
      [] v = "A" -> <<"A">>
      [] v = "ab" -> <<"a", "b">>
      [] v = "t_u 0" -> <<"t", "_", "u", " ", "0">>
      [] v = "t_u 1" -> <<"t", "_", "u", " ", "1">>
      [] v = "u " -> <<"u", " ">>
      [] v = " " -> <<" ">>
      [] v = "1" -> <<"1">>
      [] v = "_" -> <<"_">>
      [] v = "%" -> <<"%">>
      [] OTHER -> <<>>

\* s LIKE p: % stands for any characters, _ for any one character, a
\* backslash makes the next character literal
RECURSIVE like(_, _)
like(s, p) ==
    IF p = <<>> THEN s = <<>>
    ELSE IF Head(p) = "%"
    THEN like(s, Tail(p)) \/ (s # <<>> /\ like(Tail(s), p))
    ELSE IF Head(p) = "\\" /\ Len(p) > 1
    THEN s # <<>> /\ Head(s) = p[2] /\ like(Tail(s), Tail(Tail(p)))
    ELSE s # <<>> /\ (Head(p) = "_" \/ Head(p) = Head(s)) /\ like(Tail(s), Tail(p))

\* '%{}%'.format(value)
like_pattern(value) == <<"%">> \o text(value) \o <<"%">>

\* _query_like_filter: a LIKE predicate for every key whose value is not None
like_selected(t, filters) ==
    {i \in Ids : /\ t[i] # NoRow
                 /\ \A k \in DOMAIN filters :
                        \/ filters[k] = NoneVal
                        \/ /\ column(i, t[i], k) # NoneVal
                           /\ like(text(column(i, t[i], k)),
                                   like_pattern(filters[k]))}

\* tests/service.py: count_with_name_like
count_with_name_like(name) ==
    /\ can_call
    /\ IF session = "Depends"
       THEN Raise("count_like", "AttributeError", [name |-> name])
       ELSE LET F == flush(Store) IN
            Finish(F, objects_to_refresh, response_status,
                   [op |-> "count_like", exc |-> NoExc, obj |-> 0,
                    info |-> [name |-> name,
                              value |-> Cardinality(
                                  like_selected(F.txn, [name |-> name]))]],
                   <<>>, TRUE, scope)

_create(object_schema, creator_id, kwargs) ==
    /\ can_call
    /\ LET obj_dict == IF object_schema = NoSchema THEN EmptyDict
                       ELSE model_dump(object_schema)
           kw == create_kwargs(creator_id, kwargs)
           attrs == dict_merge(obj_dict, kw)
           name == IF "name" \in DOMAIN attrs THEN attrs["name"] ELSE NoneVal
           info == [name |-> name, obj_dict |-> obj_dict, kw |-> kw,
                    creator_id |-> creator_id]
       IN IF create_type_error(obj_dict, kw)
          THEN Raise("create", "TypeError", info)
          ELSE IF session = "Depends"
          THEN Raise("create", "AttributeError", info)
          ELSE /\ free_refs(Store) # {}
               /\ seq + Cardinality({r \in Refs : objs[r].st = "pending"}) < MaxId
               /\ LET r == new_ref(Store)
                      A == session_add(Store, name)
                  IN \E v \in verdicts(A, need_commit_and_close, FewErrors) :
                     LET C == _commit(A, need_commit_and_close, v) IN
                     IF C.exc.raised # "none"
                     THEN Finish(C.S, objects_to_refresh, response_status,
                                 [op |-> "create", exc |-> C.exc, obj |-> 0,
                                  info |-> info],
                                 C.events, TRUE, scope)
                     ELSE Finish(C.S, Append(objects_to_refresh, r), 201,
                                 [op |-> "create", exc |-> NoExc, obj |-> r,
                                  info |-> info],
                                 C.events, TRUE,
                                 IF pc = "body"
                                 THEN [scope EXCEPT !.created =
                                         Append(@, [ref |-> r, name |-> name])]
                                 ELSE scope)

_update(object_filter, object_schema, none_as_value, kwargs) ==
    /\ can_call
    /\ IF session = "Depends"
       THEN Raise("update", "AttributeError", [id |-> NoId, arg |-> object_filter])
       ELSE LET F == flush(Store) IN
            \E i \in scalar_rows(F, filters_of(object_filter)) :
            IF i = 0
            THEN Finish(F, objects_to_refresh, response_status,
                        [op |-> "update", exc |-> HTTPException(404, <<>>, NoViolation),
                         obj |-> 0, info |-> [id |-> NoId, arg |-> object_filter]],
                        <<>>, TRUE, scope)
            ELSE /\ can_load(F, i)
                 /\ LET L == load(F, i)
                        r == ref_of(F, i)
                        merged == dict_merge(IF object_schema = NoSchema
                                             THEN EmptyDict
                                             ELSE model_dump(object_schema),
                                             kwargs)
                        U == update_obj(L.objs[r], merged, none_as_value)
                        S2 == [L EXCEPT !.objs[r] = U.obj]
                        info == [id |-> i, merged |-> merged,
                                 none_as_value |-> none_as_value,
                                 arg |-> object_filter]
                    IN \E v \in verdicts(S2, need_commit_and_close, FewErrors) :
                       LET C == _commit(S2, need_commit_and_close, v) IN
                       IF C.exc.raised # "none"
                       THEN Finish(C.S, objects_to_refresh, response_status,
                                   [op |-> "update", exc |-> C.exc, obj |-> 0,
                                    info |-> info],
                                   C.events, TRUE, scope)
                       ELSE Finish(C.S, Append(objects_to_refresh, r),
                                   IF ~U.modified THEN 304 ELSE response_status,
                                   [op |-> "update", exc |-> NoExc, obj |-> r,
                                    info |-> info],
                                   C.events, TRUE,
                                   IF pc = "body"
                                   THEN [scope EXCEPT !.mutated = TRUE]
                                   ELSE scope)

\* a variant of session_delete that marks nothing
session_delete_noop(S, r) == S

\* session.delete(obj)
session_delete(S, r) == [S EXCEPT !.objs[r].st = "deleted"]

_delete(object_filter) ==
    /\ can_call
    /\ IF session = "Depends"
       THEN Raise("delete", "AttributeError", [id |-> NoId, arg |-> object_filter])
       ELSE LET F == flush(Store) IN
            \E i \in scalar_rows(F, filters_of(object_filter)) :
            IF i = 0
            THEN Finish(F, objects_to_refresh, response_status,
                        [op |-> "delete", exc |-> HTTPException(404, <<>>, NoViolation),
                         obj |-> 0, info |-> [id |-> NoId, arg |-> object_filter]],
                        <<>>, TRUE, scope)
            ELSE /\ can_load(F, i)
                 /\ LET L == load(F, i)
                        r == ref_of(F, i)
                        D == session_delete(L, r)
                        info == [id |-> i, arg |-> object_filter]
                    IN \E v \in verdicts(D, need_commit_and_close, FewErrors) :
                       LET C == _commit(D, need_commit_and_close, v) IN
                       IF C.exc.raised # "none"
                       THEN Finish(C.S, objects_to_refresh, response_status,
                                   [op |-> "delete", exc |-> C.exc, obj |-> 0,
                                    info |-> info],
                                   C.events, TRUE, scope)
                       ELSE Finish(C.S, objects_to_refresh, 204,
                                   [op |-> "delete", exc |-> NoExc, obj |-> r,
                                    info |-> info],
                                   C.events, TRUE,
                                   IF pc = "body"
                                   THEN [scope EXCEPT !.mutated = TRUE]
                                   ELSE scope)

refresh ==
    /\ can_call
    /\ IF session = "Depends" /\ objects_to_refresh # <<>>
       THEN Raise("refresh", "AttributeError", <<>>)
       ELSE LET R == refresh_steps(Store, objects_to_refresh, need_commit_and_close)
            IN Finish(R.S, R.otr, response_status,
                      [op |-> "refresh", exc |-> R.exc, obj |-> 0, info |-> <<>>],
                      R.events, objects_to_refresh # <<>>, scope)

-----------------------------------------------------------------------------
(* The scope: async with Service() as service *)

\* objects nobody refers to any more (the service's list and the caller's
\* last result aside) leave the model when a scope is entered
collect(o, otr, held) ==
    [r \in Refs |->
        IF o[r].st = "detached" /\ r # held /\ \A k \in 1..Len(otr) : otr[k] # r
        THEN FreeObj ELSE o[r]]

\* __aenter__ opens a session unless self.session is an AsyncSession already
aenter_opens(sess) == sess \notin {"open", "closed"}

aenter ==
    /\ pc = "out"
    /\ scopes < MaxScopes
    /\ IF aenter_opens(session)
       THEN /\ pool_has_free
            /\ session_creator' = "started"
            /\ session' = "open"
            /\ checkedout' = checkedout + 1
            /\ log' = <<"open">>
       ELSE /\ UNCHANGED <<session_creator, session, checkedout>>
            /\ log' = <<>>
    /\ need_commit_and_close' = FALSE
    /\ pc' = "body"
    /\ scopes' = scopes + 1
    /\ objs' = collect(objs, objects_to_refresh, made.ref)
    /\ scope' = [NoScope EXCEPT !.rows_before = Cardinality(visible(Store))]
    /\ ret' = [op |-> "aenter", exc |-> NoExc, obj |-> 0, info |-> <<>>]
    /\ UNCHANGED <<objects_to_refresh, response_status, external, made, nops, txn,
                   db, seq, unit, boot, task>>

\* __aexit__ after the refresh: resume the session generator, which closes
\* the session it yielded; anext(None) raises TypeError
aexit_release(R, creator, events) ==
    IF R.exc.raised # "none"
    THEN [S |-> R.S, otr |-> R.otr, need |-> FALSE, closed |-> FALSE,
          exc |-> R.exc, events |-> events \o R.events]
    ELSE IF creator = "None"
    THEN [S |-> R.S, otr |-> R.otr, need |-> FALSE, closed |-> FALSE,
          exc |-> Exc("TypeError"), events |-> events \o R.events]
    ELSE IF creator = "started"
    THEN [S |-> session_close(R.S), otr |-> R.otr, need |-> FALSE,
          closed |-> TRUE, exc |-> NoExc,
          events |-> events \o R.events \o <<"close">>]
    ELSE [S |-> R.S, otr |-> R.otr, need |-> FALSE, closed |-> FALSE,
          exc |-> NoExc, events |-> events \o R.events]

\* a variant of aexit_refresh that goes from the commit straight to the release
aexit_norefresh(C, otr, creator) ==
    IF C.exc.raised # "none"
    THEN [S |-> C.S, otr |-> otr, need |-> TRUE, closed |-> FALSE,
          exc |-> C.exc, events |-> C.events]
    ELSE aexit_release([S |-> C.S, otr |-> otr, exc |-> NoExc, events |-> <<>>],
                       creator, C.events)

\* __aexit__ after the commit: an HTTPException of _commit leaves __aexit__
\* with _need_commit_and_close still set; else refresh() and on
aexit_refresh(C, otr, creator) ==
    IF C.exc.raised # "none"
    THEN [S |-> C.S, otr |-> otr, need |-> TRUE, closed |-> FALSE,
          exc |-> C.exc, events |-> C.events]
    ELSE aexit_release(refresh_steps(C.S, otr, FALSE), creator, C.events)

\* __aexit__: commit as the owner, refresh, release
aexit_steps(S, otr, creator, v) ==
    aexit_refresh(_commit(S, TRUE, v), otr, creator)

\* leaving the scope, after the body returned or raised: __aexit__ does not
\* look at exc_info
aexit(body_raised, errors) ==
    /\ pc = "body"
    /\ \E v \in verdicts(Store, TRUE, errors) :
       \E X \in {aexit_steps(Store, objects_to_refresh, session_creator, v)} :
       /\ objs' = X.S.objs /\ txn' = X.S.txn /\ db' = X.S.db /\ seq' = X.S.seq
       /\ objects_to_refresh' = X.otr
       /\ need_commit_and_close' = X.need
       /\ session' = IF X.closed THEN "closed" ELSE session
       /\ session_creator' = IF X.closed THEN "exhausted" ELSE session_creator
       /\ checkedout' = IF X.closed THEN checkedout - 1 ELSE checkedout
       /\ log' = log \o <<"aexit">> \o X.events
                     \o <<IF X.exc.raised = "none" THEN "return" ELSE "raise">>
       /\ scope' = [scope EXCEPT !.body_raised = body_raised,
                                 !.exit = IF X.exc.raised = "none"
                                          THEN "returned" ELSE "raised"]
       /\ ret' = [op |-> "aexit", exc |-> X.exc, obj |-> 0, info |-> <<>>]
    /\ pc' = "out"
    /\ UNCHANGED <<response_status, external, made, nops, scopes, unit, boot,
                   task>>

-----------------------------------------------------------------------------
(* Tasks of a TaskGroup that call _update / _delete of one Service inside  *)
(* one scope, as test_update_multiple and test_delete_multiple do.  A task *)
(* runs until session.scalar() of _get_one awaits the database; the rest   *)
(* of its operation runs when the result is there.  An AsyncSession is not *)
(* made for concurrent tasks: a call on it while the call of another task  *)
(* is in flight is either held back until that call is over or refused     *)
(* with InvalidRequestError.                                               *)

but_task == <<session, session_creator, need_commit_and_close,
              objects_to_refresh, response_status, external, pc, ret, made,
              nops, scopes, objs, txn, db, seq, log, scope, checkedout, unit,
              boot>>

in_flight == \E u \in DOMAIN task : task[u].at = "querying"
group_failed == \E u \in DOMAIN task : task[u].at = "raised"

\* the task starts its operation and reaches the query of _get_one; while
\* another call is in flight it is refused, or held back (it starts later)
task_call(t, refused) ==
    /\ pc = "body"
    /\ task[t].at = "created"
    /\ ~group_failed
    /\ IF in_flight
       THEN refused /\ task' = [task EXCEPT ![t].at = "raised"]
       ELSE ~refused /\ task' = [task EXCEPT ![t].at = "querying"]
    /\ UNCHANGED but_task

\* the query's result is there: the operation runs to its end
task_result(t) ==
    /\ pc = "body"
    /\ task[t].at = "querying"
    /\ IF task[t].op = "update"
       THEN _update([is_dict |-> FALSE, id |-> task[t].id, filters |-> EmptyDict],
                    [name |-> task[t].name], FALSE, EmptyDict)
       ELSE _delete([is_dict |-> FALSE, id |-> task[t].id, filters |-> EmptyDict])

\* the TaskGroup cancels the tasks that are not done once one has raised
task_cancel(t) ==
    /\ group_failed
    /\ task[t].at \in {"created", "querying"}
    /\ task' = [task EXCEPT ![t].at = "cancelled"]
    /\ UNCHANGED but_task

\* every task is over: the TaskGroup is left, then the Service's scope, with
\* the group's exception if a task raised
task_group_exit ==
    /\ \A t \in DOMAIN task : task[t].at \in {"done", "raised", "cancelled"}
    /\ aexit(group_failed, {})

-----------------------------------------------------------------------------
(* Concurrent units of work, each async with Service(): what they do to    *)
(* the pool                                                                *)

Units == 1..NumUnits

\* __aenter__ asks get_session() for a session
unit_request(u) ==
    /\ unit[u] = "idle"
    /\ unit' = [unit EXCEPT ![u] = "waiting"]
    /\ UNCHANGED <<service_vars, checkedout, boot>>

\* the pool hands out a connection when it has one
unit_acquire(u) ==
    /\ unit[u] = "waiting"
    /\ pool_has_free
    /\ checkedout' = checkedout + 1
    /\ unit' = [unit EXCEPT ![u] = "holding"]
    /\ UNCHANGED <<service_vars, boot>>

\* __aexit__ closes the session: the connection returns to the pool
unit_release(u) ==
    /\ unit[u] = "holding"
    /\ checkedout' = checkedout - 1
    /\ unit' = [unit EXCEPT ![u] = "idle"]
    /\ UNCHANGED <<service_vars, boot>>

\* the engine is created without a pool timeout: the library's default
\* applies and a request that waited too long fails
unit_timeout(u) ==
    /\ unit[u] = "waiting"
    /\ ~pool_has_free
    /\ unit' = [unit EXCEPT ![u] = "idle"]
    /\ UNCHANGED <<service_vars, checkedout, boot>>

-----------------------------------------------------------------------------
(* Inputs *)

CreateSchemas == {NoSchema} \cup {[name |-> n] : n \in Names}
UpdateSchemas == {NoSchema, [name |-> NoneVal]}
CreateKwargs == {EmptyDict, [name |-> "b"]}
UpdateKwargs == {EmptyDict, [name |-> "b"]}
CreatorIds == {NoneVal, "u1"}
FilterDicts == {[name |-> "a"], [name |-> NoneVal]}
ObjectFilters ==
    {[is_dict |-> FALSE, id |-> i, filters |-> EmptyDict] : i \in Ids \cup {NoId}}
    \cup {[is_dict |-> TRUE, id |-> NoId, filters |-> f] : f \in FilterDicts}
GetFilters == {[id |-> i] : i \in Ids \cup {NoId}} \cup FilterDicts

Next ==
    \/ __init__
    \/ aenter
    \/ \E b \in BOOLEAN : aexit(b, FewErrors)
    \/ \E s \in CreateSchemas, c \in CreatorIds, k \in CreateKwargs : _create(s, c, k)
    \/ \E f \in ObjectFilters, s \in UpdateSchemas, n \in BOOLEAN, k \in UpdateKwargs :
          _update(f, s, n, k)
    \/ \E f \in ObjectFilters : _delete(f)
    \/ \E f \in GetFilters, m \in BOOLEAN : _get_one(f, m)
    \/ \E f \in FilterDicts \cup {EmptyDict}, n \in BOOLEAN : _count(f, n)
    \/ refresh

Spec == Init /\ [][Next]_vars

\* scopes of creates whose commit at exit the database answers with any of
\* the IntegrityErrors
NextCommit ==
    \/ aenter
    \/ \E s \in CreateSchemas : _create(s, NoneVal, EmptyDict)
    \/ \E b \in BOOLEAN : aexit(b, IntegrityErrors)

SpecCommit == Init /\ [][NextCommit]_vars

\* queries on tables of every content
QueryNames == {"a", "ab", "A", "t_u 0", "t_u 1"}
QueryTables ==
    {[db |-> t, seq |-> MaxId] : t \in [Ids -> QueryNames \cup {NoRow, NoneVal}]}
Pages == {NoPage, 0, 1}
Counts == {NoPage, 1, 2}
QueryFilters ==
    {EmptyDict, [name |-> "a"], [name |-> NoneVal], [id |-> 1, name |-> "a"],
     [id |-> 1, name |-> NoneVal], [id |-> NoId, name |-> "a"]}
LikeValues == {"a", "b", "A", "u ", " ", "1", "_", "%", NoneVal}

InitQuery == init_service({TRUE}, QueryTables) /\ boot = NoBoot /\ task = NoTasks

NextQuery ==
    \/ \E f \in QueryFilters, n \in BOOLEAN : _count(f, n)
    \/ \E p \in Pages, c \in Counts, n \in BOOLEAN, f \in QueryFilters :
          _get_list(p, c, n, f)
    \/ \E v \in LikeValues : count_with_name_like(v)

SpecQuery == InitQuery /\ [][NextQuery]_vars

InitBoot ==
    /\ init_service({FALSE}, {[db |-> EmptyTable, seq |-> 0]})
    /\ init_boot(Envs)
    /\ task = NoTasks

NextBoot ==
    \/ DBConfigurator
    \/ select_driver
    \/ \E outcome \in ConnectOutcomes, create_ok \in BOOLEAN :
         connect_attempt(outcome, create_ok)
    \/ init_db_exhausted

SpecBoot == InitBoot /\ [][NextBoot]_vars

\* the event loop of asyncio.run keeps running the start-up to its end
SpecBootFair == SpecBoot /\ WF_vars(NextBoot)

\* each task updates or deletes the entity of its own id
TaskInputs ==
    {[t \in 1..NumTasks |-> [at |-> "created", op |-> o[t], id |-> t,
                             name |-> IF o[t] = "update" THEN n[t] ELSE NoneVal]] :
        o \in [1..NumTasks -> {"update", "delete"}], n \in [1..NumTasks -> Names]}

InitTasks ==
    /\ init_service({FALSE},
                    {[db |-> [i \in Ids |-> IF i <= NumTasks THEN "a" ELSE NoRow],
                      seq |-> NumTasks]})
    /\ boot = NoBoot
    /\ task \in TaskInputs

NextTasks ==
    \/ aenter
    \/ \E t \in 1..NumTasks, refused \in BOOLEAN : task_call(t, refused)
    \/ \E t \in 1..NumTasks : task_result(t)
    \/ \E t \in 1..NumTasks : task_cancel(t)
    \/ task_group_exit

SpecTasks == InitTasks /\ [][NextTasks]_vars

NextPool ==
    \E u \in Units :
        \/ unit_request(u)
        \/ unit_acquire(u)
        \/ unit_release(u)
        \/ unit_timeout(u)

SpecPool == Init /\ [][NextPool]_vars

-----------------------------------------------------------------------------
(* Properties *)

RECURSIVE repeat(_, _)
repeat(e, n) == IF n = 0 THEN <<>> ELSE <<e>> \o repeat(e, n - 1)

\* the scope was entered on a Service without a session: entry opened one
entry_opened == log # <<>> /\ log[1] = "open"

(* C1: on a Service constructed with an externally supplied live session, no
   sequence of operations (_create, _update, _delete, refresh, entering and
   exiting the Service as a scope) commits, rolls back or closes that
   session. *)
C1_ExternalSessionUntouched ==
    external => \A k \in DOMAIN log : log[k] \notin {"commit", "rollback", "close"}

(* C2: entering a scope opens a session exactly when none is bound; an exit
   that returns normally from a scope whose entry opened the session, its
   commit having succeeded, does exactly: commit, one refresh per accumulated
   entity, close of the session (its connection back in the pool), in this
   order. *)
C2_ExitOrder ==
    [][ /\ (pc = "out" /\ pc' = "body") =>
              IF session = "Depends"
              THEN session' = "open" /\ log' = <<"open">>
                   /\ checkedout' = checkedout + 1
              ELSE session' = session /\ log' = <<>> /\ checkedout' = checkedout
        /\ (pc = "body" /\ pc' = "out" /\ entry_opened
                /\ scope'.exit = "returned") =>
              /\ log' = log \o <<"aexit", "commit">>
                            \o repeat("refresh", Len(objects_to_refresh))
                            \o <<"close", "return">>
              /\ session' = "closed"
              /\ checkedout' = checkedout - 1
              /\ objects_to_refresh' = <<>>
      ]_vars

C2_Witness ==
    /\ ret.op = "aexit" /\ scope.exit = "returned" /\ entry_opened
    /\ \E k \in DOMAIN log : log[k] = "refresh"
    /\ session = "closed"

(* C3: when the body of a scope raised, the session opened on entry is
   closed (its connection back in the pool) once the scope exit has
   finished, whatever was pending. *)
C3_ReleasedAfterBodyRaised ==
    (ret.op = "aexit" /\ scope.body_raised /\ entry_opened) => session = "closed"

lower_all(s) == [i \in DOMAIN s |-> lower(s[i])]

(* C4: a commit the database answers with an IntegrityError reaches the
   caller as an HTTPException: 404 with a detail that names (in any case) the
   table the row is missing from when the error reports a missing referenced
   row, 409 for every other integrity violation, and nothing else. *)
C4_CommitSignal ==
    ret.exc.cause # NoViolation =>
        /\ ret.exc.raised = "HTTPException"
        /\ IF ret.exc.cause.missing_row
           THEN /\ ret.exc.status_code = 404
                /\ contains(lower_all(ret.exc.detail),
                            lower_all(ret.exc.cause.table))
           ELSE ret.exc.status_code = 409

C4_Witness ==
    /\ ret.op = "aexit"
    /\ ret.exc.status_code = 404
    /\ ret.exc.cause.table = <<"P","o","s","t","s">>
    /\ ret.exc.cause.orig[Len(ret.exc.cause.orig)] = "'"

commits(l) == Cardinality({k \in DOMAIN l : l[k] = "commit"})

(* C5: inside a scope no operation commits and committed storage stays as
   it was; the exit makes exactly one commit attempt, after which committed
   storage holds either every mutation of the scope or none of them. *)
C5_OneCommitAtExit ==
    [][ /\ (pc = "body" /\ pc' = "body") => commits(log') = 0 /\ db' = db
        /\ (pc = "body" /\ pc' = "out") =>
              /\ commits(log') = 1
              /\ IF ret'.exc.cause = NoViolation
                 THEN db' = flush(Store).txn
                 ELSE db' = db
      ]_vars

C5_Witness ==
    /\ ret.op = "aexit" /\ ret.exc = NoExc
    /\ scope.created # <<>> /\ scope.mutated
    /\ commits(log) = 1

holding == Cardinality({u \in Units : unit[u] = "holding"})

(* C6: at most 5 connections are out of the pool at any time, however many
   units of work ask; a unit that waits for a connection gets one only in a
   step that starts with fewer than 5 out, so with 5 out it stays suspended
   until a connection has been returned. *)
C6_PoolCap ==
    /\ [](checkedout <= 5 /\ holding <= checkedout)
    /\ [][\A u \in Units :
            (unit[u] = "waiting" /\ unit'[u] = "holding") =>
                checkedout < 5 /\ checkedout' = checkedout + 1]_vars

C6_Witness ==
    /\ checkedout = 5
    /\ \E u \in Units : unit[u] = "waiting"
    /\ holding >= 4

(* C7: creates inside one scope succeed (only arguments the entity's
   constructor rejects make one fail); once the exit of a scope that did
   nothing but create has returned, every created entity has a generated id,
   the ids are pairwise distinct, every entity holds the values it was
   created with, and the table lists as many more entities as were
   created. *)
C7_ConcurrentCreates ==
    /\ (pc = "body" /\ ret.op = "create") => ret.exc.raised \in {"none", "TypeError"}
    /\ (ret.op = "aexit" /\ scope.exit = "returned" /\ ~scope.mutated) =>
          /\ \A k \in DOMAIN scope.created :
                /\ objs[scope.created[k].ref].id # NoId
                /\ objs[scope.created[k].ref].name = scope.created[k].name
          /\ \A j, k \in DOMAIN scope.created :
                j # k => objs[scope.created[j].ref].id # objs[scope.created[k].ref].id
          /\ Cardinality(visible(Store)) = scope.rows_before + Len(scope.created)

C7_Witness ==
    /\ ret.op = "aexit" /\ scope.exit = "returned" /\ ~scope.mutated
    /\ Len(scope.created) = 2
    /\ scope.rows_before = 0

(* C8: _get_one(id=...) called right after a _create with the generated id
   of the created entity returns an entity with that id whose fields equal
   the values given to _create. *)
C8_CreateThenGetOne ==
    (/\ ret.op = "get_one" /\ ret.exc.raised # "AttributeError"
     /\ ret.info.made.ref # 0 /\ ret.info.made_id # NoId
     /\ ret.info.filters = [id |-> ret.info.made_id]) =>
        /\ ret.exc = NoExc
        /\ ret.obj # 0
        /\ objs[ret.obj].id = ret.info.made_id
        /\ objs[ret.obj].name = ret.info.made.name

C8_Witness ==
    /\ ret.op = "get_one" /\ ret.exc = NoExc /\ ret.obj # 0
    /\ ret.info.made.ref # 0 /\ ret.info.made_id # NoId
    /\ ret.info.filters = [id |-> ret.info.made_id]
    /\ ret.info.made.name = "a"

(* C9: an _update that returns sets the response status to 304 when none of
   the applied fields (schema merged with the keywords, None values left out
   unless none_as_value) differs from the entity's value, and the stored
   values stay as they were; when an applied field differs it leaves the
   response status as it was and the entity, in the session and as stored,
   holds every applied value. *)
C9_UpdateStatus ==
    [][ (nops' = nops + 1 /\ ret'.op = "update" /\ ret'.exc = NoExc) =>
          LET i == ret'.info.id
              merged == ret'.info.merged
              applied == {k \in DOMAIN merged :
                            ret'.info.none_as_value \/ merged[k] # NoneOf(k)}
              current == flush(Store).txn[i]
              differs == \E k \in applied : column(i, current, k) # merged[k]
          IN IF differs
             THEN /\ response_status' = response_status
                  /\ \A k \in applied :
                        /\ column(i, (flush(Store).txn)'[i], k) = merged[k]
                        /\ column(objs'[ret'.obj].id, objs'[ret'.obj].name, k)
                              = merged[k]
             ELSE /\ response_status' = 304
                  /\ (flush(Store).txn)'[i] = current
      ]_vars

C9_Witness ==
    /\ ret.op = "update" /\ ret.exc = NoExc
    /\ response_status = 304
    /\ ret.info.merged = [name |-> "b"]
    /\ txn[ret.info.id] = "b"

(* C10: after a _delete by id that returns, a _get_one for that id with the
   not-found exception muted finds nothing, the table counts exactly one
   entity less than before the delete, and every other entity is there as
   it was. *)
C10_DeleteRemovesOne ==
    [][ (/\ nops' = nops + 1 /\ ret'.op = "delete" /\ ret'.exc = NoExc
         /\ ~ret'.info.arg.is_dict /\ ret'.info.arg.id # NoId) =>
          LET i == ret'.info.arg.id IN
          /\ i \in visible(Store)
          /\ selected((flush(Store).txn)', [id |-> i], FALSE) = {}
          /\ Cardinality(visible(Store)') = Cardinality(visible(Store)) - 1
          /\ \A j \in visible(Store) \ {i} :
                (flush(Store).txn)'[j] = flush(Store).txn[j]
      ]_vars

C10_Witness ==
    /\ ret.op = "delete" /\ ret.exc = NoExc
    /\ ~ret.info.arg.is_dict /\ ret.info.arg.id = 1
    /\ visible(Store) = {2}

(* C11: a _get_one on a bound session whose filters match no entity raises
   HTTPException(404) when mute_not_found_exception is false and returns
   None without raising when it is true; when entities match, it returns
   one of them and raises nothing. *)
C11_GetOne ==
    [][ (nops' = nops + 1 /\ ret'.op = "get_one" /\ session # "Depends") =>
          LET f == ret'.info.filters
              t == flush(Store).txn
              kept == {k \in DOMAIN f : f[k] # NoneOf(k)}
              matching == {i \in Ids : /\ t[i] # NoRow
                                       /\ \A k \in kept : column(i, t[i], k) = f[k]}
          IN IF matching = {}
             THEN IF ret'.info.mute
                  THEN ret'.exc = NoExc /\ ret'.obj = 0
                  ELSE /\ ret'.exc.raised = "HTTPException"
                       /\ ret'.exc.status_code = 404
                       /\ ret'.obj = 0
             ELSE /\ ret'.exc = NoExc
                  /\ ret'.obj # 0
                  /\ objs'[ret'.obj].id \in matching
                  /\ \A k \in kept :
                        column(objs'[ret'.obj].id, objs'[ret'.obj].name, k) = f[k]
      ]_vars

C11_Witness ==
    /\ ret.op = "get_one" /\ session # "Depends"
    /\ ret.info.mute /\ ret.exc = NoExc /\ ret.obj = 0
    /\ ret.info.filters = [name |-> "a"]
    /\ visible(Store) # {}

\* the rows of table t that satisfy the equality of every key in keys
satisfying(t, f, keys) ==
    {i \in Ids : t[i] # NoRow /\ \A k \in keys : column(i, t[i], k) = f[k]}

\* the keys of f the claim keeps: all of them in absent-as-value mode, else
\* those whose value is not None
kept_keys(f, none_as_value) ==
    IF none_as_value THEN DOMAIN f
    ELSE (DOMAIN f) \ {k \in DOMAIN f : f[k] = NoneOf(k)}

(* C12: _count counts, and an unpaginated _get_list returns, exactly the
   entities that satisfy every kept filter, where a filter whose value is
   None is kept (as an equality with None) only in none_as_value mode: in
   the default mode the result is that of the filters without that key. *)
C12_Filters ==
    /\ (ret.op = "count" /\ ret.exc = NoExc) =>
          ret.info.value =
            Cardinality(satisfying(txn, ret.info.filters,
                                   kept_keys(ret.info.filters,
                                             ret.info.none_as_value)))
    /\ (ret.op = "get_list" /\ ret.exc = NoExc
          /\ ret.info.page = NoPage /\ ret.info.count = NoPage) =>
          {ret.info.rows[k] : k \in DOMAIN ret.info.rows} =
            satisfying(txn, ret.info.filters,
                       kept_keys(ret.info.filters, ret.info.none_as_value))

C12_Witness ==
    /\ ret.op = "count" /\ ret.exc = NoExc
    /\ ret.info.none_as_value
    /\ ret.info.filters = [id |-> 1, name |-> NoneVal]
    /\ ret.info.value = 1
    /\ txn[2] = NoneVal

(* C13: the count with a like filter is exactly the number of entities
   whose field contains the given value as a case-sensitive substring; a
   None value adds no predicate. *)
C13_LikeCountsSubstring ==
    (ret.op = "count_like" /\ ret.exc = NoExc) =>
        ret.info.value =
          Cardinality({i \in Ids :
                         /\ txn[i] # NoRow
                         /\ \/ ret.info.name = NoneVal
                            \/ /\ txn[i] # NoneVal
                               /\ contains(text(txn[i]), text(ret.info.name))})

(* C14: _get_list(page=p, count=c) returns at most c entities: those at
   positions p*c .. p*c+c-1 of the filtered result in the database's
   order. *)
C14_Pagination ==
    (ret.op = "get_list" /\ ret.exc = NoExc
      /\ ret.info.page # NoPage /\ ret.info.count # NoPage) =>
        /\ Len(ret.info.rows) <= ret.info.count
        /\ ret.info.rows =
             run_query([select_query EXCEPT
                          !.offset = ret.info.page * ret.info.count,
                          !.limit = ret.info.count], ret.info.all)

(* C15: a list query is paginated iff page or count is given: with neither
   every matching entity is returned, with only count the page is 0, with
   only page the count is 20. *)
C15_PaginationDefaults ==
    (ret.op = "get_list" /\ ret.exc = NoExc) =>
        LET p == IF ret.info.page = NoPage THEN 0 ELSE ret.info.page
            c == IF ret.info.count = NoPage THEN 20 ELSE ret.info.count
        IN IF ret.info.page = NoPage /\ ret.info.count = NoPage
           THEN ret.info.rows = ret.info.all
           ELSE ret.info.rows =
                  run_query([select_query EXCEPT !.offset = p * c, !.limit = c],
                            ret.info.all)

\* the number of session.refresh() calls in a log
refreshes(l) == Cardinality({k \in DOMAIN l : l[k] = "refresh"})

\* a step in which a refresh() call ran to its end: the refresh operation, or
\* the refresh of a scope exit that returned
refresh_completed ==
    \/ nops' = nops + 1 /\ ret'.op = "refresh" /\ ret'.exc = NoExc
    \/ pc = "body" /\ pc' = "out" /\ ret'.exc = NoExc

\* a successful _create or _update appends the entity it returns
accumulated ==
    (nops' = nops + 1 /\ ret'.op \in {"create", "update"} /\ ret'.exc = NoExc) =>
        objects_to_refresh' = Append(objects_to_refresh, ret'.obj)

\* after a completed refresh every accumulated entity holds its stored row
\* and the list is empty
reread_and_emptied ==
    refresh_completed =>
        /\ objects_to_refresh' = <<>>
        /\ \A k \in DOMAIN objects_to_refresh :
              /\ objs'[objects_to_refresh[k]].id \in Ids
              /\ objs'[objects_to_refresh[k]].name
                   = txn'[objs'[objects_to_refresh[k]].id]

(* C16 as stated: a successful _create or _update appends the entity it
   returns to the accumulation list; a refresh() that completes re-reads
   each accumulated entity exactly once (as many re-reads as there are
   distinct entities in the list) and leaves the list empty. *)
C16_RefreshOncePerEntity ==
    [][ /\ accumulated
        /\ reread_and_emptied
        /\ refresh_completed =>
              refreshes(log') - refreshes(log)
                = Cardinality({objects_to_refresh[k] :
                                 k \in DOMAIN objects_to_refresh}) ]_vars

(* C16 amended: a successful _create or _update appends the entity it
   returns to the accumulation list; a refresh() that completes re-reads
   once per entry of the list (an entity appended twice is re-read twice)
   and leaves the list empty, so that a refresh() right after re-reads
   nothing. *)
C16_RefreshOncePerEntry ==
    [][ /\ accumulated
        /\ reread_and_emptied
        /\ refresh_completed =>
              refreshes(log') - refreshes(log) = Len(objects_to_refresh) ]_vars

C16_Witness ==
    /\ ret.op = "aexit" /\ ret.exc = NoExc
    /\ Len(scope.created) = 1 /\ scope.mutated
    /\ refreshes(log) = 2
    /\ Cardinality({r \in Refs : objs[r] # FreeObj}) = 1
    /\ objects_to_refresh = <<>>

(* C17: after every successful _create the response's status is 201 and
   after every successful _delete it is 204, whatever the status was
   before the operation. *)
C17_StatusAfterCreateDelete ==
    [][ /\ (nops' = nops + 1 /\ ret'.op = "create" /\ ret'.exc = NoExc) =>
              response_status' = 201
        /\ (nops' = nops + 1 /\ ret'.op = "delete" /\ ret'.exc = NoExc) =>
              response_status' = 204 ]_vars

\* a delete that succeeded after a create of the same scope had left 201
C17_Witness ==
    /\ pc = "body" /\ Len(scope.created) = 1
    /\ ret.op = "delete" /\ ret.exc = NoExc
    /\ response_status = 204

\* what the scope exit did, from its marker in the log on
exit_events ==
    IF \E k \in DOMAIN log : log[k] = "aexit"
    THEN SubSeq(log, (CHOOSE k \in DOMAIN log : log[k] = "aexit") + 1, Len(log))
    ELSE <<>>

(* C20: when the body of a scope raised an unhandled exception, the scope
   exit attempts no commit and performs no refresh, and what the body had
   changed is not persisted: the stored rows are those of the scope's
   entry. *)
C20_BodyRaisedNoCommit ==
    (ret.op = "aexit" /\ scope.body_raised) =>
        /\ \A k \in DOMAIN exit_events :
              exit_events[k] \notin {"commit", "refresh"}
        /\ Cardinality(selected(db, EmptyDict, FALSE)) = scope.rows_before

\* the providers in the order of the claim: legacy-prefixed names, canonical
\* names, the second dialect's names
ProviderOrder ==
    <<"OldPostgresSQLDBConfiguration", "PostgresSQLDBConfiguration",
      "MySQLDBConfiguration">>

\* the positions of the providers whose host and database name are both set
valid_providers ==
    {k \in 1..3 : boot.env[ProviderOrder[k]].host
                    /\ boot.env[ProviderOrder[k]].database}

(* C18: once the configurator has run, the selected provider is the first,
   in the order legacy-prefixed, canonical, second dialect, whose host and
   database name are both set; exactly the providers up to that one were
   consulted; when no provider is valid construction has failed with the
   configuration-not-found error, nothing being selected. *)
C18_FirstValidProvider ==
    boot.at \notin {"off", "start"} =>
        IF valid_providers = {}
        THEN /\ boot.at = "failed"
             /\ boot.exc = "DBConfigurationNotFoundError"
             /\ boot.configuration = "None"
             /\ [k \in DOMAIN boot.tried |-> boot.tried[k].class] = ProviderOrder
        ELSE LET first == CHOOSE k \in valid_providers :
                              \A j \in valid_providers : k <= j
             IN /\ boot.configuration = ProviderOrder[first]
                /\ boot.exc # "DBConfigurationNotFoundError"
                /\ [k \in DOMAIN boot.tried |-> boot.tried[k].class]
                     = SubSeq(ProviderOrder, 1, first)

\* the canonical provider was selected although the second dialect's is valid
\* too, the legacy one lacking its database name
C18_Witness ==
    /\ boot.at = "configured"
    /\ boot.configuration = "PostgresSQLDBConfiguration"
    /\ boot.env["OldPostgresSQLDBConfiguration"].host
    /\ ~boot.env["OldPostgresSQLDBConfiguration"].database
    /\ boot.env["MySQLDBConfiguration"].host
    /\ boot.env["MySQLDBConfiguration"].database
    /\ Len(boot.tried) = 2

(* C19: the initialisation of the database finishes normally only if an
   attempt to connect succeeded or the database was created: when every
   attempt fails it ends in an error. *)
C19_ExhaustedIsFatal ==
    boot.at = "done" => (boot.connected \/ boot.created)

\* a step whose exception was raised for an integrity violation of a commit
integrity_error_raised ==
    /\ ret'.exc.cause # NoViolation
    /\ nops' = nops + 1 \/ (pc = "body" /\ pc' = "out")

(* C21: when a commit raises an integrity violation, the session is rolled
   back right after the commit and before the 404 or 409 is raised, nothing
   else is done on the session in between, and storage is what it was
   before the commit; the body of a scope commits nothing, so none of the
   unit of work's mutations is stored after the error. *)
C21_RollbackBeforeError ==
    [][ /\ integrity_error_raised =>
              /\ ret'.exc.raised = "HTTPException"
              /\ ret'.exc.status_code \in {404, 409}
              /\ \E k \in (Len(log) + 1)..(Len(log') - 1) :
                    /\ log'[k] = "commit" /\ log'[k + 1] = "rollback"
                    /\ \A j \in (k + 2)..Len(log') : log'[j] = "raise"
                    /\ \A j \in (Len(log) + 1)..(k - 1) : log'[j] = "aexit"
              /\ db' = db
              /\ txn' = db
        /\ (pc = "body" /\ pc' = "body") => db' = db ]_vars

\* a scope that created an entity: its exit commit was refused as a conflict
C21_Witness ==
    /\ ret.op = "aexit" /\ ret.exc.status_code = 409
    /\ Len(scope.created) = 1
    /\ Cardinality(selected(db, EmptyDict, FALSE)) = scope.rows_before
    /\ txn = db

(* C22: a scope exit whose commit failed with an integrity violation, on a
   scope whose entry opened the session, still goes through the refresh
   step (the accumulation list is emptied) and releases the session: the
   session is closed and its connection is back in the pool. *)
C22_FailedCommitStillCloses ==
    (ret.op = "aexit" /\ ret.exc.cause # NoViolation /\ entry_opened) =>
        /\ session = "closed"
        /\ checkedout = 0
        /\ objects_to_refresh = <<>>
        /\ \E k \in DOMAIN log : log[k] = "close"

\* the calls a step made on the session
step_events == SubSeq(log', Len(log) + 1, Len(log'))

\* the first position of a call in a sequence of events, 0 if absent
first_of(e, events) ==
    IF \E k \in DOMAIN events : events[k] = e
    THEN CHOOSE k \in DOMAIN events :
           events[k] = e /\ \A j \in 1..(k - 1) : events[j] # e
    ELSE 0

\* a step that ran refresh() on a non-empty accumulation list: the refresh
\* operation, or a scope exit that got as far as its refresh
refresh_ran ==
    /\ objects_to_refresh # <<>>
    /\ \/ nops' = nops + 1 /\ ret'.op = "refresh" /\ session # "Depends"
       \/ pc = "body" /\ pc' = "out" /\ ret'.exc.cause = NoViolation

(* C23: when refresh() runs on a non-empty accumulation list, in the body
   of a scope or by the scope exit of a Service that manages its own
   session, the pending writes are flushed (by refresh()'s flush, or by the
   exit's commit just before) before the first entity is re-read; on an
   externally supplied session refresh() flushes nothing. *)
C23_FlushBeforeReread ==
    [][ refresh_ran =>
          IF external
          THEN first_of("flush", step_events) = 0
          ELSE \E k \in DOMAIN step_events :
                 /\ step_events[k] \in {"flush", "commit"}
                 /\ first_of("refresh", step_events) # 0 =>
                       k < first_of("refresh", step_events) ]_vars

(* C24: the initial-connection routine always terminates; it connects at
   most 20 times, never again after a connection succeeded, and when the
   database is reported missing it issues one CREATE DATABASE and stops. *)
C24_InitTerminates ==
    /\ [](boot.connects <= 20 /\ boot.creates <= 1)
    /\ [][ (boot.connected \/ boot.creates = 1) => boot' = boot ]_vars
    /\ <>(boot.at \in {"done", "failed"})

\* the twentieth attempt connected
C24_Witness ==
    boot.at = "done" /\ boot.connects = 20 /\ boot.connected

(* C25: on a Service constructed without a session, every scope entry opens
   a fresh session, a second entry of the same instance included, and an
   exit that returns leaves no session of the instance open: the session is
   closed and its connection is back in the pool. *)
C25_FreshSessionEachEntry ==
    [][ /\ (pc = "out" /\ pc' = "body" /\ ~external) =>
              /\ log' = <<"open">>
              /\ session' = "open"
              /\ session_creator' = "started"
        /\ (pc = "body" /\ pc' = "out" /\ ~external /\ ret'.exc = NoExc) =>
              /\ session' = "closed"
              /\ checkedout' = 0 ]_vars

(* C26: _create builds the entity from the schema's fields merged with the
   keyword arguments, the keyword's value winning where both name a field
   of the table: it raises no TypeError for such a call and the entity it
   returns holds the merged values; a given creator_id is handed to the
   entity as creator_id and as editor_id. *)
C26_KeywordOverridesSchema ==
    [][ (nops' = nops + 1 /\ ret'.op = "create" /\ session # "Depends") =>
          LET i == ret'.info
              merged == dict_merge(i.obj_dict, i.kw)
          IN /\ (DOMAIN merged \subseteq Columns) =>
                   /\ ret'.exc.raised # "TypeError"
                   /\ (ret'.exc = NoExc /\ "name" \in DOMAIN merged) =>
                         objs'[ret'.obj].name = merged["name"]
             /\ (i.creator_id # NoneVal) =>
                   /\ {"creator_id", "editor_id"} \subseteq DOMAIN i.kw
                   /\ i.kw["creator_id"] = i.creator_id
                   /\ i.kw["editor_id"] = i.creator_id ]_vars

\* the argument of _update / _delete names no entity: an id that is None, or
\* a filter dict whose values are all None
names_no_entity(arg) ==
    IF arg.is_dict THEN \A k \in DOMAIN arg.filters : arg.filters[k] = NoneOf(k)
    ELSE arg.id = NoId

(* C28: _update and _delete called with an id that is None, or with a
   filter dict whose values are all None, on a non-empty table change no
   entity: the rows the session sees are what they were. *)
C28_UnsetFilterChangesNothing ==
    [][ (/\ nops' = nops + 1 /\ ret'.op \in {"update", "delete"}
         /\ session # "Depends"
         /\ names_no_entity(ret'.info.arg)
         /\ visible(Store) # {}) =>
            (flush(Store).txn)' = flush(Store).txn ]_vars

\* the entries of the accumulation list whose entity was deleted since
deleted_entries ==
    {k \in DOMAIN objects_to_refresh : objs[objects_to_refresh[k]].st = "deleted"}

(* C29: at a scope exit whose commit succeeded, on a scope whose entry
   opened the session, an entity of the accumulation list that was deleted
   in the unit of work is not re-read (the exit re-reads the other entries
   only), and the exit returns and releases the session. *)
C29_DeletedNotRefreshed ==
    [][ (/\ pc = "body" /\ pc' = "out" /\ entry_opened
         /\ ret'.exc.cause = NoViolation) =>
            /\ refreshes(step_events)
                 = Len(objects_to_refresh) - Cardinality(deleted_entries)
            /\ ret'.exc = NoExc
            /\ session' = "closed" ]_vars

\* the rows the argument of _update / _delete selects, as the session sees
\* the table
rows_named(arg) ==
    IF arg.is_dict
    THEN {i \in visible(Store) :
            \A k \in DOMAIN arg.filters :
                arg.filters[k] # NoneOf(k) =>
                    column(i, flush(Store).txn[i], k) = arg.filters[k]}
    ELSE {i \in visible(Store) : arg.id # NoId => i = arg.id}

(* C30: an _update or _delete whose id or filter dict finds no entity
   raises HTTPException(404), and leaves storage, the rows the session
   sees, the accumulation list and the response's status as they were. *)
C30_NotFoundChangesNothing ==
    [][ (/\ nops' = nops + 1 /\ ret'.op \in {"update", "delete"}
         /\ session # "Depends"
         /\ rows_named(ret'.info.arg) = {}) =>
            /\ ret'.exc.raised = "HTTPException"
            /\ ret'.exc.status_code = 404
            /\ db' = db
            /\ (flush(Store).txn)' = flush(Store).txn
            /\ objects_to_refresh' = objects_to_refresh
            /\ response_status' = response_status ]_vars

\* a delete by an id that is not there, after a create had left one entity to
\* refresh and the status 201
C30_Witness ==
    /\ ret.op = "delete" /\ ret.exc.status_code = 404
    /\ ret.exc.cause = NoViolation
    /\ ~ret.info.arg.is_dict /\ ret.info.arg.id = 2
    /\ Len(objects_to_refresh) = 1
    /\ response_status = 201

(* C27: updates and deletes of pairwise distinct entities issued as
   concurrent tasks on one Service inside one scope all take effect: after
   the scope's exit every updated entity is stored with the value its task
   gave and every deleted entity is gone. *)
C27_ConcurrentTasksTakeEffect ==
    (ret.op = "aexit" /\ task # NoTasks) =>
        \A t \in DOMAIN task :
            IF task[t].op = "update" THEN db[task[t].id] = task[t].name
            ELSE db[task[t].id] = NoRow

\* the driver of the dialect a configuration class is written for
dialect_driver(class) ==
    IF class = "MySQLDBConfiguration" THEN "aiomysql" ELSE "asyncpg"

(* C31: for every configuration the provider chain can select, the driver
   selection at start-up does not fail with the driver-not-found error and
   binds no driver but the one of that configuration's dialect (a driver
   that is not installed leaves the name unbound). *)
C31_DriverForEveryConfiguration ==
    (boot.configuration # "None" /\ boot.at \notin {"start", "configured"}) =>
        /\ boot.exc # "DriverNotFoundError"
        /\ boot.driver \in {dialect_driver(boot.configuration), "unbound"}

====
